---- MODULE Spec2Model ----
(***************************************************************************)
(* Model of scripts/gastown-webhook.py: an http.server.HTTPServer whose    *)
(* WebhookHandler answers GET /health and POST /sync, the latter running   *)
(* the sync script through subprocess.run with a 120 second timeout.       *)
(*                                                                         *)
(* A request target is a sequence of lexemes ("/sync", "?", "token", "=",  *)
(* "abc", "&", ...); urlparse and parse_qs are computed on that sequence   *)
(* the way urllib.parse computes them on the characters.                   *)
(***************************************************************************)
EXTENDS Integers, Sequences, FiniteSets, TLC

\* ------------------------------------------------------------------ bounds

\* Query parameters per enumerated request target.
MaxParams == 2
\* Connections waiting in the listen queue.
MaxPending == 2
\* Connections the clients make in one run of the model.
MaxRequests == 3
\* Handler slots (a slot is one running WebhookHandler instance).
MaxHandlers == 2
\* How far past the timeout an enumerated child run lasts.
MaxOverrun == 1

\* ------------------------------------------------------- program constants

\* timeout=120 of subprocess.run
TIMEOUT_SECONDS == 120

\* ------------------------------------------------------------ lexeme text

\* s[i..j] as a sequence, empty when j < i
Slice(s, i, j) == IF j < i THEN <<>> ELSE SubSeq(s, i, j)

\* str.find: the first index of x in s at or after from, 0 when there is none
RECURSIVE FindFrom(_, _, _)
FindFrom(s, x, from) ==
    IF from > Len(s) THEN 0
    ELSE IF s[from] = x THEN from
    ELSE FindFrom(s, x, from + 1)

Find(s, x) == FindFrom(s, x, 1)

\* the text a lexeme sequence spells
RECURSIVE Str(_)
Str(s) == IF s = <<>> THEN "" ELSE Head(s) \o Str(Tail(s))

\* str.split(sep): the pieces between the separators, empty pieces included
RECURSIVE Split(_, _)
Split(s, sep) ==
    LET i == Find(s, sep)
    IN  IF i = 0 THEN <<s>>
        ELSE <<Slice(s, 1, i - 1)>> \o Split(Slice(s, i + 1, Len(s)), sep)

\* a lexeme that is the start of a path segment
IsSegment(x) == x \in {"/sync", "/health", "/other"}

\* str.rfind('/'): the index of the last lexeme that starts a path segment
RECURSIVE LastSegment(_, _)
LastSegment(s, i) ==
    IF i = 0 THEN 0
    ELSE IF IsSegment(s[i]) THEN i
    ELSE LastSegment(s, i - 1)

\* urllib.parse.unquote (after '+' became a space) of one lexeme
Unquote(x) ==
    CASE x = "a%62c" -> "abc"
      [] x = "%74oken" -> "token"
      [] x = "+" -> " "
      [] OTHER -> x

\* unquote of a lexeme sequence, as text
RECURSIVE UnquoteStr(_)
UnquoteStr(s) == IF s = <<>> THEN "" ELSE Unquote(Head(s)) \o UnquoteStr(Tail(s))

\* ---------------------------------------------------------------- urlparse

\* urlsplit's "if '#' in url: url, fragment = url.split('#', 1)"
DropFragment(url) ==
    LET i == Find(url, "#")
    IN  IF i = 0 THEN url ELSE Slice(url, 1, i - 1)

\* urlparse(url): the path and the query of an origin-form target. The
\* fragment goes first, then the query at the first '?', then the params at
\* the first ';' of the last path segment.
UrlParse(url) ==
    LET u1 == DropFragment(url)
        q  == Find(u1, "?")
        u2 == IF q = 0 THEN u1 ELSE Slice(u1, 1, q - 1)
        qs == IF q = 0 THEN <<>> ELSE Slice(u1, q + 1, Len(u1))
        seg == LastSegment(u2, Len(u2))
        p  == IF seg = 0 THEN Find(u2, ";") ELSE FindFrom(u2, ";", seg)
        u3 == IF p = 0 THEN u2 ELSE Slice(u2, 1, p - 1)
    IN  [path |-> Str(u3), query |-> qs]

\* parse_qsl(qs) with keep_blank_values=False: the (name, value) pairs in
\* order; an empty piece, a piece without '=' and a blank value are dropped
RECURSIVE ParseQslPieces(_)
ParseQslPieces(pieces) ==
    IF pieces = <<>> THEN <<>>
    ELSE LET nv == Head(pieces)
             e  == Find(nv, "=")
             rest == ParseQslPieces(Tail(pieces))
         IN  IF nv = <<>> THEN rest
             ELSE IF e = 0 THEN rest
             ELSE IF Slice(nv, e + 1, Len(nv)) = <<>> THEN rest
             ELSE <<[name |-> UnquoteStr(Slice(nv, 1, e - 1)),
                     value |-> UnquoteStr(Slice(nv, e + 1, Len(nv)))]>> \o rest

ParseQsl(qs) == ParseQslPieces(Split(qs, "&"))

\* the values parse_qs collects under one name, in order
RECURSIVE ValuesOf(_, _)
ValuesOf(pairs, name) ==
    IF pairs = <<>> THEN <<>>
    ELSE (IF Head(pairs).name = name THEN <<Head(pairs).value>> ELSE <<>>)
         \o ValuesOf(Tail(pairs), name)

\* parse_qs(qs).get(name, [''])[0]
QueryGetFirst(qs, name) ==
    LET vs == ValuesOf(ParseQsl(qs), name)
    IN  IF vs = <<>> THEN "" ELSE vs[1]

\* ---------------------------------------------------------------- requests

Methods == {"GET", "POST", "PUT", "HEAD"}

Paths == {"/sync", "/health", "/other"}

\* one query parameter, as written on the wire
ParamForms ==
    { <<"token", "=", "abc">>, <<"token", "=", "bad">>, <<"token", "=">>,
      <<"token", "=", "a%62c">>, <<"x", "=", "abc">> }

\* the query strings of exactly n parameters
RECURSIVE QueryStrings(_)
QueryStrings(n) ==
    IF n = 1 THEN ParamForms
    ELSE { q \o <<"&">> \o p : q \in QueryStrings(n - 1), p \in ParamForms }

\* what may follow the path: nothing, a query, and params or a fragment
Tails ==
    {<<>>, <<";", "p">>, <<"#", "f">>, <<"?">>}
    \cup { <<"?">> \o q : q \in UNION { QueryStrings(n) : n \in 1..MaxParams } }
    \cup { <<";", "p", "?">> \o q : q \in QueryStrings(1) }
    \cup { <<"?">> \o q \o <<"#", "f">> : q \in QueryStrings(1) }

Targets == { <<p>> \o t : p \in Paths, t \in Tails }

Requests == [method : Methods, target : Targets]

GetRequests == { r \in Requests : r.method = "GET" }
PostRequests == { r \in Requests : r.method = "POST" }
\* the requests whose method WebhookHandler has no do_<METHOD> for
OtherRequests == { r \in Requests : r.method \notin {"GET", "POST"} }

NoRequest == [method |-> "", target |-> <<>>]

\* GASTOWN_WEBHOOK_TOKEN as the environment may set it ('' when unset)
ConfiguredTokens == {"", "abc"}

\* how long an enumerated child runs, in seconds
Durations == {1, TIMEOUT_SECONDS} \cup { TIMEOUT_SECONDS + k : k \in 1..MaxOverrun }

ReturnCodes == {0, 1}
Outputs == {"", "out"}

Handlers == 1..MaxHandlers

\* ------------------------------------------------------------------- state

VARIABLES
    TOKEN,        \* the module-level TOKEN
    pending,      \* connections in the listen queue, not yet accepted
    handler,      \* handler[h]: the WebhookHandler instance in slot h
    accepted,     \* requests read so far
    nPassed,      \* POST /sync requests that passed the token check so far
    nRuns         \* subprocess.run calls so far

vars == <<TOKEN, pending, handler, accepted, nPassed, nRuns>>

NoBody == [text |-> ""]
NoResult == [returncode |-> 0, stdout |-> "", stderr |-> ""]

\* a slot with no request in it
IdleHandler ==
    [ pc       |-> "idle",     \* idle | running | respond | done
      req      |-> NoRequest,
      status   |-> <<>>,       \* the codes of send_response, in order
      message  |-> "",         \* the message of the last send_error
      ctype    |-> "",         \* the Content-Type header sent
      body     |-> NoBody,     \* the body written
      runs     |-> 0,          \* subprocess.run calls of this request
      child    |-> "none",     \* none | running | exited | killed
      duration |-> 0,          \* how long the child runs if left alone
      exc      |-> "none",     \* the exception subprocess.run raised
      result   |-> NoResult ]  \* the CompletedProcess

Init ==
    /\ TOKEN \in ConfiguredTokens
    /\ pending = 0
    /\ handler = [h \in Handlers |-> IdleHandler]
    /\ accepted = 0
    /\ nPassed = 0
    /\ nRuns = 0

\* ------------------------------------------------------------- the server

\* BaseHTTPRequestHandler.send_error(code, message): the status line, the
\* headers and the error page (no page for HEAD); the handler returns after
\* it on every path of this program
SendError(hd, code, msg) ==
    [hd EXCEPT !.status = Append(@, code),
               !.message = msg,
               !.ctype = "text/html;charset=utf-8",
               !.body = IF hd.req.method = "HEAD" THEN NoBody ELSE [text |-> "error"],
               !.pc = "done"]

\* str(e) of the exception subprocess.run raised
ErrorText(exc) ==
    CASE exc = "OSError" -> "[Errno 2] No such file or directory"
      [] exc = "TimeoutExpired" -> "Command timed out after 120 seconds"
      [] exc = "UnicodeDecodeError" -> "codec can't decode byte"
      [] exc = "BrokenPipeError" -> "[Errno 32] Broken pipe"
      [] OTHER -> ""

\* a server that hands every connection to a thread of its own
ServerBusy_Threading == FALSE

\* HTTPServer.serve_forever calls the handler in the serving thread: no
\* connection is accepted while a handler runs
ServerBusy == \E h \in Handlers : handler[h].pc # "idle"

\* the slot the next handler instance takes
FreeSlot == CHOOSE h \in Handlers :
    /\ handler[h].pc = "idle"
    /\ \A g \in Handlers : handler[g].pc = "idle" => h <= g

\* the server can read the next request
CanAccept ==
    /\ pending > 0
    /\ ~ServerBusy
    /\ \E h \in Handlers : handler[h].pc = "idle"

\* a client connects; the connection waits in the listen queue
Connect ==
    /\ pending < MaxPending
    /\ accepted + pending < MaxRequests
    /\ pending' = pending + 1
    /\ UNCHANGED <<TOKEN, handler, accepted, nPassed, nRuns>>

\* a method with no do_<METHOD> in WebhookHandler: handle_one_request
\* answers 501 itself
Unsupported ==
    /\ CanAccept
    /\ \E req \in OtherRequests :
          handler' = [handler EXCEPT ![FreeSlot] =
             SendError([IdleHandler EXCEPT !.req = req], 501, "Unsupported method")]
    /\ pending' = pending - 1
    /\ accepted' = accepted + 1
    /\ UNCHANGED <<TOKEN, nPassed, nRuns>>

\* do_GET: the whole request target is compared with '/health'
GetResponse(req) ==
    IF Str(req.target) = "/health"
    THEN [IdleHandler EXCEPT !.req = req, !.status = <<200>>, !.ctype = "text/plain",
                             !.body = [text |-> "ok"], !.pc = "done"]
    ELSE SendError([IdleHandler EXCEPT !.req = req], 404, "")

DoGET ==
    /\ CanAccept
    /\ \E req \in GetRequests :
          handler' = [handler EXCEPT ![FreeSlot] = GetResponse(req)]
    /\ pending' = pending - 1
    /\ accepted' = accepted + 1
    /\ UNCHANGED <<TOKEN, nPassed, nRuns>>

\* "if TOKEN: ... if req_token != TOKEN" with a skipped check: a request
\* without a token passes
TokenRejected_WhenGiven(query) ==
    /\ QueryGetFirst(query, "token") # ""
    /\ QueryGetFirst(query, "token") # TOKEN

\* "if TOKEN: ... if req_token != TOKEN"
TokenRejected(query) ==
    /\ TOKEN # ""
    /\ QueryGetFirst(query, "token") # TOKEN

\* do_POST with the token check ahead of the path check
PostRoute_TokenFirst(target) ==
    LET parsed == UrlParse(target)
    IN  IF TokenRejected(parsed.query) THEN 401
        ELSE IF parsed.path # "/sync" THEN 404
        ELSE 0

\* do_POST up to the subprocess call: 404, 401, or 0 to go on
PostRoute(target) ==
    LET parsed == UrlParse(target)
    IN  IF parsed.path # "/sync" THEN 404
        ELSE IF TokenRejected(parsed.query) THEN 401
        ELSE 0

\* do_POST stopped by the path or the token check
DoPOSTRefused ==
    /\ CanAccept
    /\ \E req \in PostRequests :
          LET code == PostRoute(req.target)
          IN  /\ code # 0
              /\ handler' = [handler EXCEPT ![FreeSlot] =
                    SendError([IdleHandler EXCEPT !.req = req], code,
                              IF code = 401 THEN "Invalid token" ELSE "")]
    /\ pending' = pending - 1
    /\ accepted' = accepted + 1
    /\ UNCHANGED <<TOKEN, nPassed, nRuns>>

\* do_POST reaches subprocess.run and Popen cannot start the script: the
\* exception is caught and answered 500
DoPOSTLaunchFails ==
    /\ CanAccept
    /\ \E req \in PostRequests :
          /\ PostRoute(req.target) = 0
          /\ handler' = [handler EXCEPT ![FreeSlot] =
                SendError([IdleHandler EXCEPT !.req = req,
                                              !.runs = 1, !.exc = "OSError"],
                          500, ErrorText("OSError"))]
    /\ pending' = pending - 1
    /\ accepted' = accepted + 1
    /\ nPassed' = nPassed + 1
    /\ nRuns' = nRuns + 1
    /\ UNCHANGED TOKEN

\* do_POST reaches subprocess.run, the child starts and communicate() blocks
DoPOSTSpawns ==
    /\ CanAccept
    /\ \E req \in PostRequests, d \in Durations :
          /\ PostRoute(req.target) = 0
          /\ handler' = [handler EXCEPT ![FreeSlot] =
                [IdleHandler EXCEPT !.req = req, !.runs = 1,
                                    !.child = "running", !.duration = d,
                                    !.pc = "running"]]
    /\ pending' = pending - 1
    /\ accepted' = accepted + 1
    /\ nPassed' = nPassed + 1
    /\ nRuns' = nRuns + 1
    /\ UNCHANGED TOKEN

\* communicate(timeout=120) with a timeout that never fires for these runs
TimedOut_Late(d) == d > TIMEOUT_SECONDS + MaxOverrun + 1

\* communicate(timeout=120) raises TimeoutExpired: the child is still
\* running when 120 seconds have passed
TimedOut(d) == d > TIMEOUT_SECONDS

\* the timeout path without process.kill(): the child is left running
ChildAfterTimeout_NotKilled == "running"

\* the timeout path of subprocess.run: process.kill(), process.wait()
ChildAfterTimeout == "killed"

\* the child exits in time and its output decodes: subprocess.run returns
SubprocessReturns(h, rc, out, err) ==
    /\ handler[h].pc = "running"
    /\ ~TimedOut(handler[h].duration)
    /\ handler' = [handler EXCEPT ![h] =
          [@ EXCEPT !.child = "exited",
                    !.result = [returncode |-> rc, stdout |-> out, stderr |-> err],
                    !.pc = "respond"]]
    /\ UNCHANGED <<TOKEN, pending, accepted, nPassed, nRuns>>

\* the child exits in time and its output is not text in the locale's
\* encoding (text=True): communicate() raises, the handler answers 500
SubprocessUndecodable(h) ==
    /\ handler[h].pc = "running"
    /\ ~TimedOut(handler[h].duration)
    /\ handler' = [handler EXCEPT ![h] =
          SendError([@ EXCEPT !.child = "exited", !.exc = "UnicodeDecodeError"],
                    500, ErrorText("UnicodeDecodeError"))]
    /\ UNCHANGED <<TOKEN, pending, accepted, nPassed, nRuns>>

\* a handler that runs the script again when it times out
SubprocessTimeout_Retry(h) ==
    /\ handler[h].pc = "running"
    /\ TimedOut(handler[h].duration)
    /\ handler' = [handler EXCEPT ![h] =
          [@ EXCEPT !.runs = @ + 1, !.duration = 1]]
    /\ nRuns' = nRuns + 1
    /\ UNCHANGED <<TOKEN, pending, accepted, nPassed>>

\* the timeout fires: the child is killed and reaped, TimeoutExpired is
\* caught by the handler and answered 500
SubprocessTimeout(h) ==
    /\ handler[h].pc = "running"
    /\ TimedOut(handler[h].duration)
    /\ handler' = [handler EXCEPT ![h] =
          SendError([@ EXCEPT !.child = ChildAfterTimeout, !.exc = "TimeoutExpired"],
                    500, ErrorText("TimeoutExpired"))]
    /\ UNCHANGED <<TOKEN, pending, accepted, nPassed, nRuns>>

\* json.dumps(response): the object with its three members
JsonResponse(result) ==
    [success |-> result.returncode = 0,
     stdout |-> result.stdout,
     stderr |-> result.stderr]

\* lines 49-57 with every write succeeding
SendJson(h) ==
    /\ handler[h].pc = "respond"
    /\ handler' = [handler EXCEPT ![h] =
          [@ EXCEPT !.status = Append(@, 200), !.ctype = "application/json",
                    !.body = JsonResponse(handler[h].result), !.pc = "done"]]
    /\ UNCHANGED <<TOKEN, pending, accepted, nPassed, nRuns>>

\* lines 54-59 with the client gone: send_response(200) has run, then
\* end_headers() or wfile.write() raises inside the try block and the
\* except clause calls send_error(500, str(e))
SendJsonFails(h) ==
    /\ handler[h].pc = "respond"
    /\ handler' = [handler EXCEPT ![h] =
          SendError([@ EXCEPT !.status = Append(@, 200)],
                    500, ErrorText("BrokenPipeError"))]
    /\ UNCHANGED <<TOKEN, pending, accepted, nPassed, nRuns>>

\* the handler has returned: the connection is shut down
Finish(h) ==
    /\ handler[h].pc = "done"
    /\ handler' = [handler EXCEPT ![h] = IdleHandler]
    /\ UNCHANGED <<TOKEN, pending, accepted, nPassed, nRuns>>

\* what the server and the child processes do
ServerStep ==
    \/ Unsupported
    \/ DoGET
    \/ DoPOSTRefused
    \/ DoPOSTLaunchFails
    \/ DoPOSTSpawns
    \/ \E h \in Handlers, rc \in ReturnCodes, out \in Outputs, err \in Outputs :
          SubprocessReturns(h, rc, out, err)
    \/ \E h \in Handlers : SubprocessUndecodable(h)
    \/ \E h \in Handlers : SubprocessTimeout(h)
    \/ \E h \in Handlers : SendJson(h)
    \/ \E h \in Handlers : SendJsonFails(h)
    \/ \E h \in Handlers : Finish(h)

Next == Connect \/ ServerStep

Spec == Init /\ [][Next]_vars

\* the server keeps serving and a child exits or is timed out; clients need
\* not connect
FairSpec == Spec /\ WF_vars(ServerStep)

\* ------------------------------------------------------ the claims' terms

Active(h) == handler[h].pc # "idle"
Done(h) == handler[h].pc = "done"

\* the path of the request in slot h
PathOf(h) == UrlParse(handler[h].req.target).path

\* the token parameters of a query as written, blank ones included, in order
RECURSIVE TokenParams(_)
TokenParams(pieces) ==
    IF pieces = <<>> THEN <<>>
    ELSE LET nv == Head(pieces)
             e  == Find(nv, "=")
             name == IF e = 0 THEN nv ELSE Slice(nv, 1, e - 1)
             value == IF e = 0 THEN <<>> ELSE Slice(nv, e + 1, Len(nv))
         IN  (IF UnquoteStr(name) = "token" THEN <<UnquoteStr(value)>> ELSE <<>>)
             \o TokenParams(Tail(pieces))

\* the first token parameter, '' when it is missing or blank
FirstToken(h) ==
    LET ts == TokenParams(Split(UrlParse(handler[h].req.target).query, "&"))
    IN  IF ts = <<>> THEN "" ELSE ts[1]

\* the first token parameter that is not blank, '' when there is none
FirstNonBlankToken(h) ==
    LET ts == SelectSeq(TokenParams(Split(UrlParse(handler[h].req.target).query, "&")),
                        LAMBDA t : t # "")
    IN  IF ts = <<>> THEN "" ELSE ts[1]

IsPostSync(h) == handler[h].req.method = "POST" /\ PathOf(h) = "/sync"

\* a POST /sync that passes the token check
Authorized(h) ==
    /\ IsPostSync(h)
    /\ (TOKEN = "" \/ FirstNonBlankToken(h) = TOKEN)

Codes(h) == { handler[h].status[i] : i \in 1..Len(handler[h].status) }

\* --------------------------------------------------------------------- C1

\* C1 as stated: with a token configured, a POST /sync whose first token
\* parameter (empty when missing or blank) differs from it is answered 401
\* and runs no subprocess.
C1_FirstTokenMismatchIs401 ==
    \A h \in Handlers :
        (Active(h) /\ IsPostSync(h) /\ TOKEN # "" /\ FirstToken(h) # TOKEN)
        => (handler[h].status = <<401>> /\ handler[h].runs = 0
            /\ handler[h].child = "none")

\* C1 amended: with a token configured, a POST /sync whose first non-blank
\* token parameter (empty when there is none) differs from it is answered
\* 401 at once and runs no subprocess.
C1_NonBlankTokenMismatchIs401 ==
    \A h \in Handlers :
        (Active(h) /\ IsPostSync(h) /\ TOKEN # "" /\ FirstNonBlankToken(h) # TOKEN)
        => (handler[h].status = <<401>> /\ handler[h].runs = 0
            /\ handler[h].child = "none" /\ Done(h))

C1_Witness ==
    \E h \in Handlers :
        /\ Done(h) /\ IsPostSync(h) /\ TOKEN # ""
        /\ FirstNonBlankToken(h) = "bad"
        /\ handler[h].status = <<401>>
        /\ nRuns = 1

\* --------------------------------------------------------------------- C2

\* C2 as stated: an authorized POST /sync whose child exits within the
\* timeout is answered 200 alone, with the JSON object of exactly success,
\* stdout and stderr, success being "exit code is 0".
C2_CompletedIs200 ==
    \A h \in Handlers :
        (Done(h) /\ Authorized(h) /\ handler[h].child = "exited"
         /\ handler[h].duration <= TIMEOUT_SECONDS)
        => (/\ handler[h].status = <<200>>
            /\ DOMAIN handler[h].body = {"success", "stdout", "stderr"}
            /\ handler[h].body =
                 [success |-> handler[h].result.returncode = 0,
                  stdout |-> handler[h].result.stdout,
                  stderr |-> handler[h].result.stderr])

\* --------------------------------------------------------------------- C3

\* C3: an authorized POST /sync whose child runs past the 120 seconds, or
\* whose subprocess.run raises, never sends 200 and ends with the single
\* status 500 carrying the exception's text.
C3_TimeoutOrErrorIs500 ==
    \A h \in Handlers :
        (Active(h) /\ Authorized(h)
         /\ ((handler[h].child # "none" /\ handler[h].duration > TIMEOUT_SECONDS)
             \/ handler[h].exc # "none"))
        => (/\ 200 \notin Codes(h)
            /\ Done(h) =>
                 (/\ handler[h].status = <<500>>
                  /\ handler[h].message # ""
                  /\ handler[h].message = ErrorText(handler[h].exc)
                  /\ (handler[h].duration > TIMEOUT_SECONDS
                        => handler[h].exc = "TimeoutExpired")))

C3_Witness ==
    \E h \in Handlers :
        /\ Done(h) /\ Authorized(h)
        /\ handler[h].duration > TIMEOUT_SECONDS
        /\ handler[h].status = <<500>>
        /\ handler[h].exc = "TimeoutExpired"

\* --------------------------------------------------------------------- C4

\* C4: a request runs the sync command once if it is a POST /sync that
\* passed the token check and never otherwise, a 200 JSON answer comes from
\* exactly one run, and the runs so far equal the requests that passed.
C4_OneRunPerAuthorizedSync ==
    /\ nRuns = nPassed
    /\ \A h \in Handlers :
          Active(h) =>
            /\ handler[h].runs = (IF Authorized(h) THEN 1 ELSE 0)
            /\ (200 \in Codes(h) /\ IsPostSync(h))
                  => (handler[h].runs = 1 /\ handler[h].child = "exited")

C4_Witness ==
    /\ nRuns = 2
    /\ accepted = 2
    /\ \E h \in Handlers :
          Done(h) /\ IsPostSync(h) /\ handler[h].status = <<200>>

\* --------------------------------------------------------------------- C5

\* C5 as stated: every GET whose path is /health, whatever query the target
\* carries, is answered 200 text/plain "ok" and runs no subprocess.
C5_HealthAlways200 ==
    \A h \in Handlers :
        (Done(h) /\ handler[h].req.method = "GET" /\ PathOf(h) = "/health")
        => (/\ handler[h].status = <<200>>
            /\ handler[h].ctype = "text/plain"
            /\ handler[h].body = [text |-> "ok"]
            /\ handler[h].runs = 0)

\* --------------------------------------------------------------------- C6

\* C6: a GET whose path is not /health and a POST whose path is not /sync
\* are answered 404 alone, whatever the token, and run no subprocess.
C6_UnknownPathIs404 ==
    \A h \in Handlers :
        (Active(h)
         /\ \/ (handler[h].req.method = "GET" /\ PathOf(h) # "/health")
            \/ (handler[h].req.method = "POST" /\ PathOf(h) # "/sync"))
        => (/\ Done(h)
            /\ handler[h].status = <<404>>
            /\ handler[h].runs = 0
            /\ handler[h].child = "none")

C6_Witness ==
    \E h \in Handlers :
        /\ Done(h) /\ handler[h].req.method = "POST" /\ PathOf(h) = "/health"
        /\ TOKEN # "" /\ FirstToken(h) # TOKEN
        /\ handler[h].status = <<404>>

\* --------------------------------------------------------------------- C7

\* C7 as stated: a request whose method is neither GET nor POST is answered
\* 404 and runs no subprocess.
C7_OtherMethodIs404 ==
    \A h \in Handlers :
        (Active(h) /\ handler[h].req.method \notin {"GET", "POST"})
        => (handler[h].status = <<404>> /\ handler[h].runs = 0)

\* --------------------------------------------------------------------- C8

RunningChildren == { h \in Handlers : handler[h].child = "running" }

\* a sync subprocess runs while another connection waits to be served
SyncRunningWithWaiter ==
    /\ pending > 0
    /\ \E h \in Handlers : Authorized(h) /\ handler[h].child = "running"

C9_BlocksUntilChildIsGone ==
    \A h \in Handlers :
        /\ handler[h].child = "running" => handler[h].status = <<>>
        /\ handler[h].pc = "running" => handler[h].status = <<>>
        /\ (Done(h) /\ handler[h].runs > 0)
              => handler[h].child \in {"none", "exited", "killed"}

C9_Witness ==
    \E h \in Handlers :
        /\ Done(h) /\ handler[h].child = "killed"
        /\ handler[h].status = <<500>>

\* -------------------------------------------------------------------- C10

\* C10 as stated: a POST /sync emits one status: after 200 has been sent
\* for a completed subprocess no 500 follows.
C10_SingleStatus ==
    \A h \in Handlers :
        (Active(h) /\ IsPostSync(h))
        => (Len(handler[h].status) <= 1
            /\ ~(200 \in Codes(h) /\ 500 \in Codes(h)))

====
